---- MODULE Spec2Model ----
(***************************************************************************)
(* pyjson: extraction of JSON documents embedded in noisy text.            *)
(*                                                                         *)
(* The model follows src/pyjson/scanner.py (Scanner, StringScanner) and    *)
(* src/pyjson/parser.py (BuildObjectHandler, Parser).  Offsets are the     *)
(* 0-based offsets of the Python code: the character at offset i is        *)
(* source[i + 1].  A character is a one-character string; NUL stands for   *)
(* the "\0" that Scanner._peek returns past the end of the source.         *)
(***************************************************************************)
EXTENDS Integers, Sequences, FiniteSets, TLC

VARIABLES
    input,      \* the pieces the source text was assembled from
    source,     \* Scanner.source
    scanner,    \* Scanner: start, current, line, line_start, garbage
    previous,   \* Parser.previous
    current,    \* Parser.current
    stack,      \* BuildObjectHandler.stack
    top_level,  \* BuildObjectHandler.top_level
    pc,         \* the parser's call stack, innermost frame first
    raised,     \* the exception that left Parser.parse(), or "none"
    returned,   \* the tokens Scanner.next() has returned so far
    failure,    \* the last failure caught by Parser.json
    rewinds,    \* the offsets the parser has rewound the cursor to
    scan_error, \* the last StringScanError raised by StringScanner
    history     \* what the run has built: see NoHistory

vars == <<input, source, scanner, previous, current, stack, top_level, pc,
          raised, returned, failure, rewinds, scan_error, history>>

-----------------------------------------------------------------------------
(* Bounds *)

MaxFrags == 4
MaxPieces == 3
MaxEndCalls == 2
MaxScanFrags == 4
MaxQuoteFrags == 5
MaxNumberFrags == 5

\* the fragments of a text of words and signs
MaxWordFrags == 4

-----------------------------------------------------------------------------
(* Characters *)

NUL == "NUL"

Digits == {"0", "1", "2", "3", "4", "5", "6", "7", "8", "9"}

Letters ==
    {"a", "b", "c", "d", "e", "f", "g", "h", "i", "j", "k", "l", "m", "n",
     "o", "p", "q", "r", "s", "t", "u", "v", "w", "x", "y", "z",
     "A", "B", "C", "D", "E", "F", "G", "H", "I", "J", "K", "L", "M", "N",
     "O", "P", "Q", "R", "S", "T", "U", "V", "W", "X", "Y", "Z"}

\* a character that str.isdigit() takes for a digit and int() and float() do
\* not: the superscript two, U+00B2
SuperscriptTwo == "SUPERSCRIPT TWO"

\* str.isdigit
isdigit(c) == c \in Digits \/ c = SuperscriptTwo

isalpha(c) == c \in Letters

\* str.isspace for the characters int() strips
isspace(c) == c \in {" ", "\t", "\n", "\r", "\f"}

RECURSIVE Flatten(_)
Flatten(pieces) ==
    IF pieces = <<>> THEN <<>> ELSE Head(pieces) \o Flatten(Tail(pieces))

-----------------------------------------------------------------------------
(* Tokens *)

CHAR_TOKENS ==
    "[" :> "LEFT_SQUARE_BRACKET" @@ "]" :> "RIGHT_SQUARE_BRACKET" @@
    "{" :> "LEFT_BRACE" @@ "}" :> "RIGHT_BRACE" @@
    "," :> "COMMA" @@ ":" :> "COLON" @@ "\"" :> "QUOTES"

KEYWORDS ==
    <<"n", "u", "l", "l">> :> "NULL" @@
    <<"f", "a", "l", "s", "e">> :> "FALSE" @@
    <<"t", "r", "u", "e">> :> "TRUE" @@
    <<"N", "a", "N">> :> "NAN" @@
    <<"I", "n", "f", "i", "n", "i", "t", "y">> :> "INFINITY"

SIGNED_KEYWORDS ==
    "+" :> (<<"N", "a", "N">> :> "NAN" @@
            <<"I", "n", "f", "i", "n", "i", "t", "y">> :> "INFINITY") @@
    "-" :> (<<"N", "a", "N">> :> "NAN" @@
            <<"I", "n", "f", "i", "n", "i", "t", "y">> :> "MINUS_INFINITY")

None == [kind |-> "None"]

Token(type, lexeme, literal, start, line, column) ==
    [type |-> type, lexeme |-> lexeme, literal |-> literal,
     start |-> start, line |-> line, column |-> column]

\* source[a:b]
Slice(a, b) == SubSeq(source, a + 1, b)

-----------------------------------------------------------------------------
(* Scanner *)

ScannerInit ==
    [start |-> 0, current |-> 0, line |-> 1, line_start |-> 0,
     garbage |-> FALSE]

ScannerIsAtEnd(sc) == sc.current >= Len(source)

ScannerColumn(sc) == sc.current - sc.line_start

ScannerPeek(sc, lookahead) ==
    LET pos == sc.current + lookahead - 1
    IN  IF pos >= Len(source) THEN NUL ELSE source[pos + 1]

NewToken(sc, type, literal) ==
    Token(type, Slice(sc.start, sc.current), literal, sc.start, sc.line,
          ScannerColumn(sc))

\* the cursor after `while self._peek().isdigit(): self._advance()`
RECURSIVE SkipDigits(_)
SkipDigits(sc) ==
    IF isdigit(ScannerPeek(sc, 1))
    THEN SkipDigits([sc EXCEPT !.current = @ + 1])
    ELSE sc

\* the cursor after `while self._peek().isalpha(): self._advance()`
RECURSIVE SkipAlpha(_)
SkipAlpha(sc) ==
    IF isalpha(ScannerPeek(sc, 1))
    THEN SkipAlpha([sc EXCEPT !.current = @ + 1])
    ELSE sc

\* int(text) for a run of decimal digits
RECURSIVE DecimalValue(_)
DecimalValue(digits) ==
    IF digits = <<>> THEN 0
    ELSE 10 * DecimalValue(SubSeq(digits, 1, Len(digits) - 1))
         + (CHOOSE d \in 0..9 :
              <<"0", "1", "2", "3", "4", "5", "6", "7", "8", "9">>[d + 1]
                = digits[Len(digits)])

\* int(text): text is an optional sign and decimal digits
IntOf(text) ==
    IF text[1] = "-" THEN 0 - DecimalValue(Tail(text))
    ELSE IF text[1] = "+" THEN DecimalValue(Tail(text))
    ELSE DecimalValue(text)

\* the fractional part of Scanner._number: n is the scanner with is_int
NumberFraction(n) ==
    IF ScannerPeek(n.scanner, 1) = "." /\ isdigit(ScannerPeek(n.scanner, 2))
    THEN [scanner |-> SkipDigits([n.scanner EXCEPT !.current = @ + 1]),
          is_int |-> FALSE]
    ELSE n

\* the sign of the exponent, after the "e" is consumed
NumberExponentSign(sc) ==
    IF ScannerPeek(sc, 1) \in {"+", "-"}
    THEN [sc EXCEPT !.current = @ + 1]
    ELSE sc

\* the exponent part of Scanner._number
NumberExponent(n) ==
    IF /\ ScannerPeek(n.scanner, 1) \in {"e", "E"}
       /\ \/ /\ ScannerPeek(n.scanner, 2) \in {"-", "+"}
             /\ isdigit(ScannerPeek(n.scanner, 3))
          \/ isdigit(ScannerPeek(n.scanner, 2))
    THEN [scanner |->
            SkipDigits(NumberExponentSign([n.scanner
                                             EXCEPT !.current = @ + 1])),
          is_int |-> FALSE]
    ELSE n

\* the decoded literal: int(text) or float(text), a float kept as its text;
\* both raise a ValueError on a digit that is no decimal digit
NumberLiteral(text, is_int) ==
    IF \E i \in 1..Len(text) : text[i] = SuperscriptTwo
    THEN [kind |-> "ValueError"]
    ELSE IF is_int THEN [kind |-> "int", value |-> IntOf(text)]
    ELSE [kind |-> "float", text |-> text]

\* the NUMBER token of a literal, or in the place of the token the
\* ValueError that leaves Scanner._number
NumberOf(sc, literal) ==
    [token |-> NewToken(sc, IF literal.kind = "ValueError"
                            THEN "ValueError" ELSE "NUMBER", literal),
     scanner |-> sc]

NumberToken(n) ==
    NumberOf(n.scanner,
             NumberLiteral(Slice(n.scanner.start, n.scanner.current),
                           n.is_int))

Number(sc0) ==
    NumberToken(NumberExponent(NumberFraction(
        [scanner |-> SkipDigits(sc0), is_int |-> TRUE])))

\* a faulty lookup that takes a signed word for the word without its sign
KeywordIgnoresSign(sc0, sign) ==
    LET sc1 == SkipAlpha(sc0)
        name == Slice(sc1.start + Len(sign), sc1.current)
        type == IF name \in DOMAIN KEYWORDS THEN KEYWORDS[name] ELSE "GARBAGE"
    IN  [token |-> NewToken(sc1, type, None), scanner |-> sc1]

Keyword(sc0, sign) ==
    LET sc1 == SkipAlpha(sc0)
        name == Slice(sc1.start + Len(sign), sc1.current)
        keywords == IF sign # <<>> THEN SIGNED_KEYWORDS[sign[1]] ELSE KEYWORDS
        type == IF name \in DOMAIN keywords THEN keywords[name] ELSE "GARBAGE"
    IN  [token |-> NewToken(sc1, type, None), scanner |-> sc1]

\* the cursor after Scanner._comment
RECURSIVE Comment(_)
Comment(sc) ==
    IF ScannerPeek(sc, 1) # "\n" /\ ~ScannerIsAtEnd(sc)
    THEN Comment([sc EXCEPT !.current = @ + 1])
    ELSE sc

\* _scan_token at the end of the source: the cursor stays where it is
EndOfInput(sc) == [token |-> NewToken(sc, "EOF", None), scanner |-> sc]

\* the values the fields of a Scanner take over this source
ScannerStates ==
    [start : 0..Len(source), current : 0..Len(source),
     line : 1..(Len(source) + 1), line_start : 0..Len(source),
     garbage : BOOLEAN]

ScanToken[sc0 \in ScannerStates] ==
    LET sc == [sc0 EXCEPT !.start = sc0.current]
    IN  IF ScannerIsAtEnd(sc)
        THEN EndOfInput(sc)
        ELSE
          LET c == source[sc.current + 1]
              s1 == [sc EXCEPT !.current = @ + 1]
          IN  IF c \in DOMAIN CHAR_TOKENS
              THEN [token |-> NewToken(s1, CHAR_TOKENS[c], None),
                    scanner |-> s1]
              ELSE IF c \in {"+", "-"}
              THEN IF isdigit(ScannerPeek(s1, 1)) THEN Number(s1)
                   ELSE IF isalpha(ScannerPeek(s1, 1))
                   THEN Keyword(s1, <<c>>)
                   ELSE [token |-> NewToken(s1, "GARBAGE", None),
                         scanner |-> s1]
              ELSE IF c = "/" /\ ScannerPeek(s1, 1) = "/"
              THEN ScanToken[Comment([s1 EXCEPT !.current = @ + 1])]
              ELSE IF c \in {" ", "\r", "\t"}
              THEN ScanToken[s1]
              ELSE IF c = "\n"
              THEN ScanToken[[s1 EXCEPT !.line = @ + 1,
                                        !.line_start = s1.current]]
              ELSE IF isdigit(c) THEN Number(s1)
              ELSE IF isalpha(c) THEN Keyword(s1, <<>>)
              ELSE [token |-> NewToken(s1, "GARBAGE", None), scanner |-> s1]

\* Scanner.next; raw counts the calls of _scan_token it made
RECURSIVE ScannerNextFrom(_, _)

\* a faulty Scanner.next that returns every token of _scan_token
CoalesceNothing(r, raw) ==
    [token |-> r.token,
     scanner |-> [r.scanner EXCEPT !.garbage = (r.token.type = "GARBAGE")],
     raw |-> raw]

\* what Scanner.next does with the result r of one _scan_token
Coalesce(r, raw) ==
    IF r.token.type = "ValueError"
    THEN [token |-> r.token, scanner |-> r.scanner, raw |-> raw]
    ELSE IF r.token.type = "GARBAGE"
    THEN IF r.scanner.garbage
         THEN ScannerNextFrom(r.scanner, raw + 1)
         ELSE [token |-> r.token,
               scanner |-> [r.scanner EXCEPT !.garbage = TRUE],
               raw |-> raw]
    ELSE [token |-> r.token,
          scanner |-> [r.scanner EXCEPT !.garbage = FALSE],
          raw |-> raw]

\* the result of _scan_token is computed once and handed to Coalesce
ScannerNextFrom(sc0, raw) ==
    CHOOSE next \in {Coalesce(r, raw) : r \in {ScanToken[sc0]}} : TRUE

ScannerNext(sc) == ScannerNextFrom(sc, 1)

-----------------------------------------------------------------------------
(* StringScanner *)

Ascii ==
    <<" ", "!", "\"", "#", "$", "%", "&", "'", "(", ")", "*", "+", ",", "-",
      ".", "/", "0", "1", "2", "3", "4", "5", "6", "7", "8", "9", ":", ";",
      "<", "=", ">", "?", "@", "A", "B", "C", "D", "E", "F", "G", "H", "I",
      "J", "K", "L", "M", "N", "O", "P", "Q", "R", "S", "T", "U", "V", "W",
      "X", "Y", "Z", "[", "\\", "]", "^", "_", "GRAVE", "a", "b", "c", "d", "e",
      "f", "g", "h", "i", "j", "k", "l", "m", "n", "o", "p", "q", "r", "s",
      "t", "u", "v", "w", "x", "y", "z", "{", "|", "}", "~">>

\* ord(c): a decoded string is the sequence of its code points (the grave
\* accent, which a TLA+ string cannot hold, only keeps its place in Ascii)
Ord(c) ==
    CASE c = "\t" -> 9
      [] c = "\n" -> 10
      [] c = "\f" -> 12
      [] c = "\r" -> 13
      [] OTHER -> 31 + (CHOOSE i \in 1..Len(Ascii) : Ascii[i] = c)

IsHexDigit(c) == c \in Digits \cup {"a", "b", "c", "d", "e", "f",
                                    "A", "B", "C", "D", "E", "F"}

HexDigitValue(c) ==
    IF c \in Digits THEN Ord(c) - 48
    ELSE IF c \in {"a", "b", "c", "d", "e", "f"} THEN Ord(c) - 87
    ELSE Ord(c) - 55

RECURSIVE Strip(_)
Strip(s) ==
    IF s = <<>> THEN s
    ELSE IF isspace(s[1]) THEN Strip(Tail(s))
    ELSE IF isspace(s[Len(s)]) THEN Strip(SubSeq(s, 1, Len(s) - 1))
    ELSE s

\* digits of int(text, 16): hex digits, single underscores between them
IsHexDigits(s) ==
    /\ s # <<>>
    /\ IsHexDigit(s[1])
    /\ IsHexDigit(s[Len(s)])
    /\ \A i \in 1..Len(s) : IsHexDigit(s[i]) \/ s[i] = "_"
    /\ \A i \in 1..(Len(s) - 1) : ~(s[i] = "_" /\ s[i + 1] = "_")

RECURSIVE HexDigitsValue(_)
HexDigitsValue(s) ==
    IF s = <<>> THEN 0
    ELSE LET init == SubSeq(s, 1, Len(s) - 1)
         IN  IF s[Len(s)] = "_" THEN HexDigitsValue(init)
             ELSE 16 * HexDigitsValue(init) + HexDigitValue(s[Len(s)])

\* int(text, 16) of the digits d, negated when negative: -1 where Python
\* raises ValueError (from int, or from chr of a negative number)
HexDigitsOrError(d, negative) ==
    IF ~IsHexDigits(d) THEN -1
    ELSE IF negative /\ HexDigitsValue(d) # 0 THEN -1
    ELSE HexDigitsValue(d)

\* the optional 0x prefix, which an underscore may follow
HexUnprefixed(t) ==
    IF Len(t) >= 2 /\ t[1] = "0" /\ t[2] \in {"x", "X"}
    THEN IF Len(t) >= 3 /\ t[3] = "_" THEN SubSeq(t, 4, Len(t))
         ELSE SubSeq(t, 3, Len(t))
    ELSE t

HexSigned(s) ==
    IF s # <<>> /\ s[1] \in {"+", "-"}
    THEN HexDigitsOrError(HexUnprefixed(Tail(s)), s[1] = "-")
    ELSE HexDigitsOrError(HexUnprefixed(s), FALSE)

\* chr(int(hexcode, 16)) as a code point, or -1 where Python raises ValueError
HexValue(hexcode) == HexSigned(Strip(hexcode))

\* a faulty StringScanner._error that reports the offset before its start
StringErrorBeforeStart(start) ==
    [outcome |-> "StringScanError", restart_position |-> start - 1]

\* StringScanner._error
StringError(start) ==
    [outcome |-> "StringScanError", restart_position |-> start]

\* StringScanner.scan_string's loop from offset cur with the characters decoded
\* so far; start is StringScanner.start
RECURSIVE ScanChars(_, _, _)

\* the \u escape at offset cur, its code point v decoded
ScanUnicode(start, cur, chars, v) ==
    IF v < 0 THEN [outcome |-> "ValueError"]
    ELSE ScanChars(start, cur + 6, Append(chars, v))

\* the escape at offset cur: e is the character after the backslash
ScanEscape(start, cur, chars, e) ==
    IF e \in {"\"", "\\", "/"}
    THEN ScanChars(start, cur + 2, Append(chars, Ord(e)))
    ELSE IF e = "b" THEN ScanChars(start, cur + 2, Append(chars, 8))
    ELSE IF e = "f" THEN ScanChars(start, cur + 2, Append(chars, 12))
    ELSE IF e = "n" THEN ScanChars(start, cur + 2, Append(chars, 10))
    ELSE IF e = "r" THEN ScanChars(start, cur + 2, Append(chars, 13))
    ELSE IF e = "t" THEN ScanChars(start, cur + 2, Append(chars, 9))
    ELSE IF e = "u"
    THEN IF cur + 6 > Len(source)
         THEN StringError(start)
         ELSE ScanUnicode(start, cur, chars,
                          HexValue(Slice(cur + 2, cur + 6)))
    ELSE ScanChars(start, cur + 2, Append(chars, Ord(e)))

ScanChars(start, cur, chars) ==
    IF cur >= Len(source) THEN StringError(start)
    ELSE IF source[cur + 1] = "\\"
    THEN IF cur + 1 >= Len(source) THEN StringError(start)
         ELSE ScanEscape(start, cur, chars, source[cur + 2])
    ELSE IF source[cur + 1] = "\n" THEN StringError(start)
    ELSE IF source[cur + 1] = "\""
    THEN [outcome |-> "ok", current |-> cur + 1, chars |-> chars]
    ELSE ScanChars(start, cur + 1, Append(chars, Ord(source[cur + 1])))

\* the STRING token of a scan that ended r
StringToken(start, line, r) ==
    IF r.outcome = "ok"
    THEN [outcome |-> "ok", current |-> r.current,
          token |-> Token("STRING", Slice(start - 1, r.current),
                          [kind |-> "str", chars |-> r.chars],
                          start, line, start)]
    ELSE r

\* StringScanner(source, start, line).scan_string()
ScanString(start, line) ==
    StringToken(start, line, ScanChars(start, start, <<>>))

-----------------------------------------------------------------------------
(* BuildObjectHandler: a value is a record with a kind; a property name on  *)
(* the stack is a value of kind "str"                                       *)

HandlerInit == [stack |-> <<>>, top_level |-> <<>>, error |-> "none"]

\* a faulty reset() that also drops the completed documents
HandlerResetAll(h) == [h EXCEPT !.stack = <<>>, !.top_level = <<>>]

\* BuildObjectHandler.reset
HandlerReset(h) == [h EXCEPT !.stack = <<>>]

EmptyDict == [kind |-> "dict", keys |-> <<>>, vals |-> <<>>]

EmptyList == [kind |-> "list", items |-> <<>>]

\* d[name] = value
DictSet(d, name, value) ==
    IF \E i \in 1..Len(d.keys) : d.keys[i] = name
    THEN LET i == CHOOSE j \in 1..Len(d.keys) : d.keys[j] = name
         IN  [d EXCEPT !.vals[i] = value]
    ELSE [d EXCEPT !.keys = Append(@, name), !.vals = Append(@, value)]

Pop(s) == SubSeq(s, 1, Len(s) - 1)

Top(s) == s[Len(s)]

\* BuildObjectHandler.element; error names the exception Python raises where
\* the stack has a shape the code does not expect
HandlerElement(h, value) ==
    IF h.stack = <<>>
    THEN [h EXCEPT !.top_level = Append(@, value)]
    ELSE IF Top(h.stack).kind = "str"
    THEN LET below == Pop(h.stack)
         IN  IF below = <<>> THEN [h EXCEPT !.error = "IndexError"]
             ELSE IF Top(below).kind = "dict"
             THEN [h EXCEPT !.stack =
                     [below EXCEPT ![Len(below)] =
                        DictSet(Top(below), Top(h.stack).chars, value)]]
             ELSE [h EXCEPT !.error = "TypeError"]
    ELSE IF Top(h.stack).kind = "list"
    THEN [h EXCEPT !.stack[Len(h.stack)].items = Append(@, value)]
    ELSE [h EXCEPT !.error = "AssertionError"]

HandlerStartObject(h) == [h EXCEPT !.stack = Append(@, EmptyDict)]

\* a faulty start_array() that pushes no container
HandlerStartArrayPushesNothing(h) == h

HandlerStartArray(h) == [h EXCEPT !.stack = Append(@, EmptyList)]

\* end_object and end_array are the same code: self.element(self.stack.pop())
HandlerEnd(h) ==
    IF h.stack = <<>> THEN [h EXCEPT !.error = "IndexError"]
    ELSE HandlerElement([h EXCEPT !.stack = Pop(@)], Top(h.stack))

\* a faulty property() that pushes no name
HandlerPropertyPushesNothing(h, name) == h

HandlerProperty(h, name) ==
    [h EXCEPT !.stack = Append(@, [kind |-> "str", chars |-> name])]

-----------------------------------------------------------------------------
(* Parser.  A configuration c holds the parser with its scanner (c.p), the  *)
(* handler (c.h), the call stack (c.pc) and what has been recorded of the   *)
(* run; every method is a function from configurations to configurations.   *)
(* A ParseError unwinds to the except clause of Parser.json (pc "reset");   *)
(* any other exception leaves Parser.parse() (pc empty, raised set).        *)

NoToken == Token("None", <<>>, None, -1, 0, 0)

NoFailure ==
    [caught |-> FALSE, type |-> "None", start |-> -1, rewind |-> -1,
     quote |-> -1, colon |-> FALSE]

NoScanError == [raised |-> FALSE, restart_position |-> -1, quote |-> -1]

\* before: the number of documents completed when the current document
\* attempt began; opened: the offsets of the opening brackets of the
\* containers being built, outermost first; spans: for every completed
\* document the offsets of its opening and of its closing bracket
NoHistory == [before |-> 0, opened |-> <<>>, spans |-> <<>>]

Config ==
    [p |-> [scanner |-> scanner, previous |-> previous, current |-> current,
            returned |-> returned],
     h |-> [stack |-> stack, top_level |-> top_level, error |-> "none"],
     pc |-> pc, raised |-> raised, failure |-> failure, rewinds |-> rewinds,
     scan_error |-> scan_error, history |-> history]

Apply(c) ==
    /\ scanner' = c.p.scanner
    /\ previous' = c.p.previous
    /\ current' = c.p.current
    /\ returned' = c.p.returned
    /\ stack' = c.h.stack
    /\ top_level' = c.h.top_level
    /\ pc' = c.pc
    /\ raised' = c.raised
    /\ failure' = c.failure
    /\ rewinds' = c.rewinds
    /\ scan_error' = c.scan_error
    /\ history' = c.history
    /\ UNCHANGED <<input, source>>

Goto(c, pc1) == [c EXCEPT !.pc = pc1]

\* an exception other than ParseError: nothing catches it
Throw(c, exc) == [c EXCEPT !.pc = <<>>, !.raised = exc]

\* Parser.error(token, message)
Error(c, token) ==
    [c EXCEPT !.pc = <<"reset">>,
              !.failure = [NoFailure EXCEPT !.caught = TRUE,
                                            !.type = token.type,
                                            !.start = token.start]]

\* self.scanner.current = quotes.start + 1
RewindTarget(quotes) == quotes.start + 1

Rewind(c, quotes) ==
    [c EXCEPT !.p.scanner.current = RewindTarget(quotes),
              !.rewinds = Append(@, RewindTarget(quotes)),
              !.failure.rewind = RewindTarget(quotes),
              !.failure.quote = quotes.start]

\* a handler event; an exception of the handler leaves parse()
Handle(c, h) ==
    IF h.error # "none" THEN Throw([c EXCEPT !.h = h], h.error)
    ELSE [c EXCEPT !.h = h]

IsAtEnd(p) == p.current.type = "EOF"

Check(p, types) == IF IsAtEnd(p) THEN FALSE ELSE p.current.type \in types

\* Parser.advance, r the result of self.scanner.next()
Advanced(p, r) ==
    [scanner |-> r.scanner, previous |-> p.current, current |-> r.token,
     returned |-> Append(p.returned,
                         [type |-> r.token.type, start |-> r.token.start,
                          raw |-> r.raw])]

\* the inputs of the parser hold decimal digits only: on them
\* self.scanner.next() raises nothing
Advance(p) == IF ~IsAtEnd(p) THEN Advanced(p, ScannerNext(p.scanner)) ELSE p

AdvanceIn(c) == [c EXCEPT !.p = Advance(c.p)]

\* Parser._get_string, r the result of scan_string(): ok with the STRING
\* token, or the configuration the exception leaves
GotString(c, token, r) ==
    IF r.outcome = "StringScanError"
    THEN [ok |-> FALSE,
          c |-> Error([c EXCEPT !.scan_error =
                         [raised |-> TRUE,
                          restart_position |-> r.restart_position,
                          quote |-> token.start]],
                      token)]
    ELSE IF r.outcome = "ValueError"
    THEN [ok |-> FALSE, c |-> Throw(c, "ValueError")]
    ELSE [ok |-> TRUE, value |-> r.token,
          c |-> AdvanceIn([c EXCEPT !.p.scanner.current = r.current])]

GetString(c) ==
    GotString(c, c.p.previous,
              ScanString(c.p.previous.start + 1, c.p.previous.line))

\* the opening bracket of a container is consumed: it is c.p.previous
Opened(c) == [c EXCEPT !.history.opened = Append(@, c.p.previous.start)]

\* the closing bracket of a container is consumed: it is c.p.previous; the
\* container is a document if it is the only entry of the builder stack
Completed(c) ==
    [c EXCEPT !.history.opened = Pop(@),
              !.history.spans =
                 IF Len(c.h.stack) = 1 /\ c.history.opened # <<>>
                 THEN Append(@, [open |-> Top(c.history.opened),
                                 close |-> c.p.previous.start])
                 ELSE @]

\* the container is reported once its closing bracket is consumed
Closed(c, rest) == Handle(Goto(Completed(c), rest), HandlerEnd(c.h))

\* the end of Parser.list and Parser.object: consume the closing bracket and
\* report the container; rest is the caller's stack
Close(c, type, rest) ==
    IF Check(c.p, {type}) THEN Closed(AdvanceIn(c), rest)
    ELSE Error(c, c.p.current)

\* the head of the loop of Parser.list
ListLoop(c, rest) ==
    IF Check(c.p, {"RIGHT_SQUARE_BRACKET"})
    THEN Close(c, "RIGHT_SQUARE_BRACKET", rest)
    ELSE Goto(c, <<"element", "list_after_element">> \o rest)

ParserList(c) ==
    ListLoop(Handle(Opened(c), HandlerStartArray(c.h)), Tail(c.pc))

ParserListAfterElement(c) ==
    IF Check(c.p, {"COMMA"})
    THEN ListLoop(AdvanceIn(c), Tail(c.pc))
    ELSE Close(c, "RIGHT_SQUARE_BRACKET", Tail(c.pc))

\* the head of the loop of Parser.object
ObjectLoop(c, rest) ==
    IF Check(c.p, {"RIGHT_BRACE"})
    THEN Close(c, "RIGHT_BRACE", rest)
    ELSE Goto(c, <<"property", "object_after_property">> \o rest)

ParserObject(c) ==
    ObjectLoop(Handle(Opened(c), HandlerStartObject(c.h)), Tail(c.pc))

ParserObjectAfterProperty(c) ==
    IF Check(c.p, {"COMMA"})
    THEN ObjectLoop(AdvanceIn(c), Tail(c.pc))
    ELSE Close(c, "RIGHT_BRACE", Tail(c.pc))

\* Parser.property once the name is scanned (g), from the ':' on
PropertyColon(g, quotes, rest) ==
    IF ~g.ok
    THEN IF g.c.raised # "none" THEN g.c ELSE Rewind(g.c, quotes)
    ELSE IF ~Check(g.c.p, {"COLON"})
    THEN Rewind([Error(g.c, g.c.p.current) EXCEPT !.failure.colon = TRUE],
                quotes)
    ELSE Goto(Handle(AdvanceIn(g.c),
                     HandlerProperty(g.c.h, g.value.literal.chars)),
              <<"element">> \o rest)

\* Parser.property once the opening quote is consumed
PropertyName(c, rest) == PropertyColon(GetString(c), c.p.previous, rest)

ParserProperty(c) ==
    IF ~Check(c.p, {"QUOTES"}) THEN Error(c, c.p.current)
    ELSE PropertyName(AdvanceIn(c), Tail(c.pc))

\* Parser.string once the string is scanned (g): its call of self.error
\* passes one argument where the method takes two, which Python answers with
\* a TypeError
StringElement(g, quotes, rest) ==
    IF ~g.ok THEN g.c
    ELSE IF ~Check(g.c.p, {"COMMA", "RIGHT_SQUARE_BRACKET", "RIGHT_BRACE"})
    THEN Throw([g.c EXCEPT !.p.scanner.current = RewindTarget(quotes),
                           !.rewinds = Append(@, RewindTarget(quotes))],
               "TypeError")
    ELSE Handle(Goto(g.c, rest), HandlerElement(g.c.h, g.value.literal))

ParserString(c) == StringElement(GetString(c), c.p.previous, Tail(c.pc))

ScalarOf(token) ==
    CASE token.type = "NUMBER" -> token.literal
      [] token.type = "TRUE" -> [kind |-> "True"]
      [] token.type = "FALSE" -> [kind |-> "False"]
      [] token.type = "NULL" -> [kind |-> "None"]
      [] token.type = "NAN" -> [kind |-> "float", text |-> <<"n", "a", "n">>]
      [] token.type = "INFINITY" ->
           [kind |-> "float", text |-> <<"+", "i", "n", "f">>]
      [] token.type = "MINUS_INFINITY" ->
           [kind |-> "float", text |-> <<"-", "i", "n", "f">>]

Scalars ==
    {"NUMBER", "TRUE", "FALSE", "NULL", "NAN", "INFINITY", "MINUS_INFINITY"}

\* a scalar element, its token consumed
ScalarElement(c, rest) ==
    Handle(Goto(c, rest), HandlerElement(c.h, ScalarOf(c.p.previous)))

ParserElement(c) ==
    IF Check(c.p, {"LEFT_SQUARE_BRACKET"})
    THEN Goto(AdvanceIn(c), <<"list">> \o Tail(c.pc))
    ELSE IF Check(c.p, {"LEFT_BRACE"})
    THEN Goto(AdvanceIn(c), <<"object">> \o Tail(c.pc))
    ELSE IF Check(c.p, {"QUOTES"})
    THEN Goto(AdvanceIn(c), <<"string">> \o Tail(c.pc))
    ELSE IF Check(c.p, Scalars)
    THEN ScalarElement(AdvanceIn(c), Tail(c.pc))
    ELSE Error(c, c.p.current)

\* a faulty broken_document that goes on with an array after an array
BrokenDocumentAfterListAgain(c) ==
    IF Check(c.p, {"LEFT_SQUARE_BRACKET"})
    THEN Goto(AdvanceIn(c), <<"list", "broken_document_after_list">>)
    ELSE IF Check(c.p, {"LEFT_BRACE"})
    THEN Goto(AdvanceIn(c), <<"object", "broken_document_after_object">>)
    ELSE Error(c, c.p.current)

\* Parser.broken_document from its second statement on
BrokenDocumentAfterList(c) ==
    IF Check(c.p, {"LEFT_BRACE"})
    THEN Goto(AdvanceIn(c), <<"object", "broken_document_after_object">>)
    ELSE Error(c, c.p.current)

BrokenDocument(c) ==
    IF Check(c.p, {"LEFT_SQUARE_BRACKET"})
    THEN Goto(AdvanceIn(c), <<"list", "broken_document_after_list">>)
    ELSE BrokenDocumentAfterList(c)

\* a faulty Parser.reset that skips no token
ResetLoopSkipsNothing(p) == p

\* the loop of Parser.reset
RECURSIVE ResetLoop(_)
ResetLoop(p) ==
    IF IsAtEnd(p) THEN p
    ELSE IF p.current.type \in {"LEFT_SQUARE_BRACKET", "LEFT_BRACE"} THEN p
    ELSE ResetLoop(Advance(p))

ParserReset(c) ==
    [c EXCEPT !.h = HandlerReset(c.h), !.p = ResetLoop(c.p), !.pc = <<"json">>,
              !.history.opened = <<>>]

\* the head of the loop of Parser.json
ParserJson(c) ==
    IF IsAtEnd(c.p) THEN Goto(c, <<>>)
    ELSE [c EXCEPT !.pc = <<"broken_document">>,
                   !.history.before = Len(c.h.top_level)]

-----------------------------------------------------------------------------
(* Actions: one per method, or per place a method resumes at after a call   *)

At(label) == pc # <<>> /\ Head(pc) = label

Json == At("json") /\ Apply(ParserJson(Config))

Document == At("broken_document") /\ Apply(BrokenDocument(Config))

DocumentAfterList ==
    At("broken_document_after_list") /\ Apply(BrokenDocumentAfterList(Config))

DocumentAfterObject ==
    At("broken_document_after_object") /\ Apply(Error(Config, current))

Element == At("element") /\ Apply(ParserElement(Config))

List == At("list") /\ Apply(ParserList(Config))

ListAfterElement ==
    At("list_after_element") /\ Apply(ParserListAfterElement(Config))

Object == At("object") /\ Apply(ParserObject(Config))

ObjectAfterProperty ==
    At("object_after_property") /\ Apply(ParserObjectAfterProperty(Config))

Property == At("property") /\ Apply(ParserProperty(Config))

String == At("string") /\ Apply(ParserString(Config))

Reset == At("reset") /\ Apply(ParserReset(Config))

-----------------------------------------------------------------------------
(* Inputs *)

\* the pieces of the inputs of Spec: punctuation, a number, a letter, a
\* string, a comment opener, a newline and a \u escape whose last hex digit
\* is the character after it
Frags ==
    { <<"[">>, <<"]">>, <<"{">>, <<"}">>, <<",">>, <<":">>, <<"\"">>,
      <<"1">>, <<"a">>, <<"\"", "a", "\"">>, <<"/", "/">>, <<"\n">>,
      <<"\\", "u", "1", "a", "1">> }

Inputs == UNION { [1..n -> Frags] : n \in 0..MaxFrags }

\* the pieces of the inputs of DocSpec: well-formed top-level arrays and
\* objects, and noise without brackets
Docs ==
    { <<"[", "]">>, <<"{", "}">>, <<"[", "1", "]">>,
      <<"[", "[", "]", ",", "\"", "a", "\"", "]">>,
      <<"{", "\"", "a", "\"", ":", "1", ",", "\"", "b", "\"", ":", "[", "]",
        "}">>,
      <<"[", "\"", "/", "/", "\"", "]">> }

Noise ==
    { <<"a">>, <<"1">>, <<"\"">>, <<"+">>, <<"-">>, <<" ">>,
      <<"\n">>, <<",">>, <<":">> }

DocInputs == UNION { [1..n -> Docs \cup Noise] : n \in 0..MaxPieces }

\* Scanner(source), BuildObjectHandler(), Parser(scanner, handler): r is the
\* result of the scanner.next() of Parser.__init__
InitParser(r) ==
    /\ scanner = r.scanner
    /\ current = r.token
    /\ returned = <<[type |-> r.token.type, start |-> r.token.start,
                     raw |-> r.raw]>>
    /\ previous = NoToken
    /\ stack = <<>>
    /\ top_level = <<>>
    /\ pc = <<"json">>
    /\ raised = "none"
    /\ failure = NoFailure
    /\ rewinds = <<>>
    /\ scan_error = NoScanError
    /\ history = NoHistory

InitWith(inp) ==
    /\ input = inp
    /\ source = Flatten(inp)
    /\ \E r \in {ScannerNext(ScannerInit)} : InitParser(r)

Init == \E inp \in Inputs : InitWith(inp)

Next ==
    \/ Json
    \/ Document
    \/ DocumentAfterList
    \/ DocumentAfterObject
    \/ Element
    \/ List
    \/ ListAfterElement
    \/ Object
    \/ ObjectAfterProperty
    \/ Property
    \/ String
    \/ Reset

Spec == Init /\ [][Next]_vars

DocInit == \E inp \in DocInputs : InitWith(inp)

DocSpec == DocInit /\ [][Next]_vars

\* inputs where quotes stand between brackets: the texts on which the parser
\* rewinds the cursor and starts again inside what it took for a string
QuoteFrags ==
    { <<"[">>, <<"]">>, <<"{">>, <<"}">>, <<"\"">>, <<":">>, <<"1">> }

QuoteInputs == UNION { [1..n -> QuoteFrags] : n \in 0..MaxQuoteFrags }

QuoteInit == \E inp \in QuoteInputs : InitWith(inp)

QuoteSpec == QuoteInit /\ [][Next]_vars

-----------------------------------------------------------------------------
(* The scanner alone, driven as tests/test_scanner.py drives it: next() is   *)
(* called again and again, and MaxEndCalls more times once EOF has come.     *)

ScanFrags ==
    { <<"[">>, <<"\"">>, <<"1">>, <<"a">>, <<"/">>, <<"\n">>, <<" ">>,
      <<"+">>, <<"#">>, <<SuperscriptTwo>> }

ScanInputs == UNION { [1..n -> ScanFrags] : n \in 0..MaxScanFrags }

ScanInit ==
    /\ input \in ScanInputs
    /\ source = Flatten(input)
    /\ scanner = ScannerInit
    /\ returned = <<>>
    /\ previous = NoToken
    /\ current = NoToken
    /\ stack = <<>>
    /\ top_level = <<>>
    /\ pc = <<"scan">>
    /\ raised = "none"
    /\ failure = NoFailure
    /\ rewinds = <<>>
    /\ scan_error = NoScanError
    /\ history = NoHistory

EndCalls == Cardinality({i \in 1..Len(returned) : returned[i].type = "EOF"})

\* token = scanner.next(), r its result: a token, or the ValueError that
\* ends the loop
Scanned(r) ==
    /\ scanner' = r.scanner
    /\ IF r.token.type = "ValueError"
       THEN /\ raised' = "ValueError"
            /\ pc' = <<>>
            /\ UNCHANGED <<current, previous, returned>>
       ELSE /\ current' = r.token
            /\ previous' = current
            /\ returned' = Append(returned,
                                  [type |-> r.token.type,
                                   start |-> r.token.start, raw |-> r.raw])
            /\ UNCHANGED <<raised, pc>>
    /\ UNCHANGED <<input, source, stack, top_level, failure, rewinds,
                   scan_error, history>>

ScanNext ==
    /\ At("scan")
    /\ EndCalls <= MaxEndCalls
    /\ \E r \in {ScannerNext(scanner)} : Scanned(r)

ScanSpec == ScanInit /\ [][ScanNext]_vars

\* the test's loop does not stop before it has its EOF
FairScanSpec == ScanSpec /\ WF_vars(ScanNext)

-----------------------------------------------------------------------------
(* Properties *)

Done == pc = <<>>

Last(s) == s[Len(s)]

Brackets == {"LEFT_SQUARE_BRACKET", "LEFT_BRACE"}

Delimiters == {"COMMA", "RIGHT_SQUARE_BRACKET", "RIGHT_BRACE"}

\* C1: Parser.parse() returns normally for every input: no exception of any
\* kind reaches the caller, also not where a string element is followed by
\* something other than ',' ']' '}' or where a string holds a \u escape.
C1_NoException == raised = "none"

\* the values of the documents of Docs, as BuildObjectHandler builds them
IntValue(n) == [kind |-> "int", value |-> n]

Str(chars) == [kind |-> "str", chars |-> chars]

ListOf(items) == [kind |-> "list", items |-> items]

DocValue(doc) ==
    CASE doc = <<"[", "]">> -> EmptyList
      [] doc = <<"{", "}">> -> EmptyDict
      [] doc = <<"[", "1", "]">> -> ListOf(<<IntValue(1)>>)
      [] doc = <<"[", "[", "]", ",", "\"", "a", "\"", "]">> ->
           ListOf(<<EmptyList, Str(<<97>>)>>)
      [] doc = <<"{", "\"", "a", "\"", ":", "1", ",", "\"", "b", "\"", ":",
                 "[", "]", "}">> ->
           [kind |-> "dict", keys |-> <<<<97>>, <<98>>>>,
            vals |-> <<IntValue(1), EmptyList>>]
      [] doc = <<"[", "\"", "/", "/", "\"", "]">> -> ListOf(<<Str(<<47, 47>>)>>)

RECURSIVE Documents(_)
Documents(pieces) ==
    IF pieces = <<>> THEN <<>>
    ELSE IF Head(pieces) \in Docs
    THEN <<DocValue(Head(pieces))>> \o Documents(Tail(pieces))
    ELSE Documents(Tail(pieces))

\* C2: for an input made of well-formed top-level arrays and objects with
\* runs of bracket-free noise before, between and after them, the completed
\* documents after parse() are exactly those arrays and objects, once each,
\* in source order, with the same nesting.
C2_RecoversDocuments ==
    Done => raised = "none" /\ top_level = Documents(input)

\* the first token of the source text after the closing quote of the string
\* that starts after the opening quote `quotes`
TokenAfterString(quotes) ==
    ScanToken[[ScannerInit EXCEPT
                 !.current = ScanString(quotes.start + 1, quotes.line).current
              ]].token.type

StringScans(quotes) ==
    ScanString(quotes.start + 1, quotes.line).outcome = "ok"

\* C3: a string consumed as an element is reported to the builder only if
\* the first token of the source after its closing quote is ',' ']' or '}';
\* otherwise the attempt fails as a parse failure with the cursor at
\* opening-quote offset + 1, and no document is emitted for it.
C3_StringElementRule ==
    [][(At("string") /\ StringScans(previous)) =>
         IF TokenAfterString(previous) \in Delimiters
         THEN pc' = Tail(pc)
         ELSE /\ pc' = <<"reset">>
              /\ scanner'.current = previous.start + 1
              /\ top_level' = top_level]_vars

\* C4 as first stated: after a failure caught by the top-level loop, the
\* lookahead that Parser.reset leaves for the next attempt starts strictly
\* after the start of the token that triggered the failure, or is END.
C4_StrictProgress ==
    (pc = <<"json">> /\ failure.caught) =>
        current.type = "EOF" \/ current.start > failure.start

\* C4: after a failure caught by the top-level loop, Parser.reset leaves the
\* lookahead at '[', '{' or END; unless it is END it starts at or after the
\* token that triggered the failure, at it exactly when that token is itself
\* '[' or '{'; but after a property's missing ':', where the cursor was
\* rewound, it is only known to start after the property's opening quote.
C4_Progress ==
    (pc = <<"json">> /\ failure.caught) =>
        /\ current.type \in Brackets \cup {"EOF"}
        /\ current.type # "EOF" =>
             IF failure.colon
             THEN current.start > failure.quote
             ELSE /\ current.start >= failure.start
                  /\ current.start = failure.start <=> failure.type \in Brackets

C4_Witness ==
    /\ pc = <<"json">>
    /\ failure.caught
    /\ failure.colon
    /\ current.type \in Brackets
    /\ current.start > failure.start

\* C5: parse() ends with the lookahead at END, whatever the input, and each
\* rewind target is strictly greater than every earlier one.
C5_EndsAtEnd ==
    /\ Done => current.type = "EOF"
    /\ \A i \in 1..(Len(rewinds) - 1) : rewinds[i] < rewinds[i + 1]

\* C6: no two consecutive tokens returned by Scanner.next() are both
\* GARBAGE, also when the parser has moved the cursor between the calls.
C6_NoTwoGarbage ==
    \A i \in 1..(Len(returned) - 1) :
        ~(returned[i].type = "GARBAGE" /\ returned[i + 1].type = "GARBAGE")

\* a token returned after next() dropped a GARBAGE that followed a returned
\* GARBAGE, the cursor having been moved past a string in between
C6_Witness ==
    /\ At("list_after_element")
    /\ stack # <<>>
    /\ Top(stack).kind = "list"
    /\ Top(stack).items # <<>>
    /\ Last(Top(stack).items).kind = "str"
    /\ Len(returned) > 1
    /\ Last(returned).raw > 1
    /\ returned[Len(returned) - 1].type = "GARBAGE"

SawEnd == returned # <<>> /\ Last(returned).type = "EOF"

\* C7: repeated calls of Scanner.next() reach EOF after finitely many calls,
\* and every call after an EOF returns EOF again.
C7_EndIsFinal ==
    /\ <>SawEnd
    /\ [][SawEnd => Last(returned').type = "EOF"]_vars

\* C8: after a property failure that rewound the cursor to opening-quote
\* offset + 1, every token of the source from that offset on is read before
\* the parser stops at END: nothing is left unread behind the cursor.
C8_ResumesAfterQuote ==
    (Done /\ raised = "none" /\ rewinds # <<>>) =>
        ScannerNext(scanner).token.type = "EOF"

\* C9 as first stated: a string-scan failure carries the offset of the
\* literal's opening quote as its restart position.
C9_RestartAtQuote ==
    scan_error.raised => scan_error.restart_position = scan_error.quote

\* C9: a string-scan failure carries, as its restart position, the offset
\* the sub-scanner was constructed with: the opening quote's offset + 1.
C9_RestartAfterQuote ==
    scan_error.raised => scan_error.restart_position = scan_error.quote + 1

C9_Witness ==
    /\ scan_error.raised
    /\ scan_error.quote > 0
    /\ pc = <<"reset">>

IsPrefix(s, t) == Len(s) <= Len(t) /\ SubSeq(t, 1, Len(s)) = s

\* C10: the completed-document list only grows, by one document at its end
\* when a closing bracket is consumed; reset() empties the stack and leaves
\* the list as it is.
C10_AppendOnly ==
    [][/\ \/ top_level' = top_level
          \/ /\ Len(top_level') = Len(top_level) + 1
             /\ IsPrefix(top_level, top_level')
             /\ previous'.type \in {"RIGHT_SQUARE_BRACKET", "RIGHT_BRACE"}
       /\ At("reset") => stack' = <<>> /\ top_level' = top_level]_vars

\* a failure caught with documents completed and a container half built
C10_Witness ==
    /\ pc = <<"reset">>
    /\ Len(top_level) > 0
    /\ stack # <<>>

\* the offset where the run of raw GARBAGE scans that starts at the cursor
\* of sc ends
RECURSIVE NoiseRunEnd(_)
NoiseRunEnd(sc) ==
    IF ScanToken[sc].token.type = "GARBAGE"
    THEN NoiseRunEnd(ScanToken[sc].scanner)
    ELSE sc.current

\* C11: a GARBAGE token returned by Scanner.next() covers the whole run of
\* consecutive noise: its lexeme goes from the first character of the run to
\* the last character of the last raw GARBAGE scan of the run.
C11_NoiseCoversRun ==
    (At("scan") /\ current.type = "GARBAGE") =>
        current.lexeme = Slice(current.start, NoiseRunEnd(scanner))

\* C12: every completed document is an object or an array, never a scalar;
\* every document attempt starts with the builder stack empty.
C12_DocumentsAreContainers ==
    /\ \A i \in 1..Len(top_level) : top_level[i].kind \in {"dict", "list"}
    /\ At("json") => stack = <<>>

\* a run that met a scalar outside every container, then completed a
\* document that holds a scalar
C12_Witness ==
    /\ Done
    /\ raised = "none"
    /\ returned[1].type \in Scalars \cup {"QUOTES"}
    /\ \E i \in 1..Len(top_level) :
         /\ top_level[i].kind = "list"
         /\ top_level[i].items # <<>>

\* C13: every completed document spans the source from its opening bracket
\* to its closing bracket: the opening bracket lies before the closing one,
\* whatever failures and rewinds came before.
C13_DocumentSpans ==
    \A i \in 1..Len(history.spans) :
        history.spans[i].open < history.spans[i].close

\* the parser is after an element or a property, on a ',' that the closing
\* bracket of the container follows
AtTrailingComma ==
    /\ current.type = "COMMA"
    /\ \/ /\ At("list_after_element")
          /\ ScannerNext(scanner).token.type = "RIGHT_SQUARE_BRACKET"
       \/ /\ At("object_after_property")
          /\ ScannerNext(scanner).token.type = "RIGHT_BRACE"

\* C14: a ',' in an array or object that the closing ']' or '}' follows at
\* once is a grammar failure: the attempt fails and emits no document.
C14_NoTrailingComma ==
    [][AtTrailingComma => pc' = <<"reset">> /\ top_level' = top_level]_vars

\* C15: the builder never meets a stack it does not expect (no assertion
\* failure, no pop of an empty stack); a property name on the stack sits
\* directly on an object, and is on top only while the parser reads its
\* value or has failed; end_array pops an array and end_object an object,
\* the name of the last property being resolved by then.
C15_StackDiscipline ==
    /\ raised \notin {"AssertionError", "IndexError"}
    /\ \A i \in 1..Len(stack) :
         stack[i].kind = "str" => i > 1 /\ stack[i - 1].kind = "dict"
    /\ (stack # <<>> /\ Top(stack).kind = "str") =>
         \/ At("element") \/ At("string") \/ At("list") \/ At("object")
         \/ At("reset")
         \/ raised # "none"
    /\ (At("property") \/ At("object_after_property")) =>
         stack # <<>> /\ Top(stack).kind = "dict"
    /\ At("list_after_element") => stack # <<>> /\ Top(stack).kind = "list"

\* a property resolved in an object that is about to get a sibling or close
C15_Witness ==
    /\ At("object_after_property")
    /\ stack # <<>>
    /\ Top(stack).kind = "dict"
    /\ Top(stack).keys # <<>>

\* the number of documents the current document attempt has appended
AttemptDocuments == Len(top_level) - history.before

\* C16 as first stated: no document attempt appends more than one document.
C16_OnePerAttempt == AttemptDocuments <= 1

\* C16: a document attempt appends no document, one, or two; it appends two
\* exactly when an array is followed at once by an object, which
\* broken_document reads in the same call; the attempt ends with a parse
\* failure also after it has appended documents.
C16_AttemptAppends ==
    /\ AttemptDocuments \in 0..2
    /\ AttemptDocuments = 2 =>
         /\ top_level[history.before + 1].kind = "list"
         /\ top_level[history.before + 2].kind = "dict"
    /\ (At("json") /\ AttemptDocuments > 0) => failure.caught

\* an attempt that appended an array and an object, and then failed
C16_Witness == AttemptDocuments = 2 /\ At("reset")

\* the texts of the number scan: a decimal digit, a dot, an exponent letter,
\* signs, a letter that belongs to no number, and a digit that is no decimal
\* digit
NumberFrags ==
    { <<"1">>, <<".">>, <<"e">>, <<"+">>, <<"-">>, <<"f">>,
      <<SuperscriptTwo>> }

NumberInputs == UNION { [1..n -> NumberFrags] : n \in 0..MaxNumberFrags }

\* a scanner on its own, as the tests drive it
ScanInitWith(inp) ==
    /\ input = inp
    /\ source = Flatten(inp)
    /\ scanner = ScannerInit
    /\ returned = <<>>
    /\ previous = NoToken
    /\ current = NoToken
    /\ stack = <<>>
    /\ top_level = <<>>
    /\ pc = <<"scan">>
    /\ raised = "none"
    /\ failure = NoFailure
    /\ rewinds = <<>>
    /\ scan_error = NoScanError
    /\ history = NoHistory

NumberInit == \E inp \in NumberInputs : ScanInitWith(inp)

NumberSpec == NumberInit /\ [][ScanNext]_vars

\* the character at offset i of the source, NUL past its end
CharAt(i) == IF i < Len(source) THEN source[i + 1] ELSE NUL

AllDigits(text) == \A i \in 1..Len(text) : text[i] \in Digits

\* text is [+-]? digits ('.' digits)? ([eE] [+-]? digits)?, with at least
\* one digit in each run of digits; frac and exp tell the parts it has
IsNumberText(text, frac, exp) ==
    \E g \in 0..1, i \in 1..Len(text), j \in 1..Len(text) :
        /\ g = 1 <=> text[1] \in {"+", "-"}
        /\ g < i /\ i <= j
        /\ AllDigits(SubSeq(text, g + 1, i))
        /\ IF frac
           THEN /\ i + 1 < j
                /\ text[i + 1] = "."
                /\ AllDigits(SubSeq(text, i + 2, j))
           ELSE j = i
        /\ IF exp
           THEN /\ j + 1 < Len(text)
                /\ text[j + 1] \in {"e", "E"}
                /\ \E k \in 1..2 :
                     /\ k = 2 <=> text[j + 2] \in {"+", "-"}
                     /\ j + k <= Len(text)
                     /\ AllDigits(SubSeq(text, j + k + 1, Len(text)))
           ELSE j = Len(text)

\* the text at offset i goes on with a fractional part
FractionAt(i) == CharAt(i) = "." /\ isdigit(CharAt(i + 1))

\* the text at offset i goes on with an exponent
ExponentAt(i) ==
    /\ CharAt(i) \in {"e", "E"}
    /\ \/ isdigit(CharAt(i + 1))
       \/ CharAt(i + 1) \in {"+", "-"} /\ isdigit(CharAt(i + 2))

\* the token starts where a number starts
StartsNumber(token) ==
    \/ isdigit(CharAt(token.start))
    \/ /\ CharAt(token.start) \in {"+", "-"}
       /\ isdigit(CharAt(token.start + 1))

HasDot(text) == \E i \in 1..Len(text) : text[i] = "."

HasExponent(text) == \E i \in 1..Len(text) : text[i] \in {"e", "E"}

\* the number ends where the text after it cannot go on with it
EndsNumber(text, end) ==
    /\ ~isdigit(CharAt(end))
    /\ ~HasExponent(text) => ~ExponentAt(end)
    /\ (~HasExponent(text) /\ ~HasDot(text)) => ~FractionAt(end)

\* the tokens of the scan are as C17 says: see C17_NumberScan
NumberTokens ==
    (At("scan") /\ returned # <<>> /\ current.type # "EOF") =>
        /\ current.type = "NUMBER" <=> StartsNumber(current)
        /\ current.type = "NUMBER" =>
             /\ IsNumberText(current.lexeme, HasDot(current.lexeme),
                             HasExponent(current.lexeme))
             /\ EndsNumber(current.lexeme,
                           current.start + Len(current.lexeme))
             /\ current.literal.kind = "int" <=>
                  ~HasDot(current.lexeme) /\ ~HasExponent(current.lexeme)
             /\ current.literal.kind \in {"int", "float"}

\* C17: the scan of a number gives a NUMBER token, exactly where the text
\* starts with a digit or with a sign and a digit; the token takes the
\* integer digits, a '.' only with a digit after it, an 'e' or 'E' only with
\* a digit or a sign and a digit after it, and ends where the text cannot go
\* on with the number; its literal is an integer exactly when it has neither
\* of the two parts.
C17_NumberScan == raised = "none" /\ NumberTokens

\* the texts of the keyword scan: the five keywords, the signs, a letter
\* that is no keyword, a digit and a blank
WordFrags ==
    { <<"n", "u", "l", "l">>, <<"f", "a", "l", "s", "e">>,
      <<"t", "r", "u", "e">>, <<"N", "a", "N">>,
      <<"I", "n", "f", "i", "n", "i", "t", "y">>,
      <<"+">>, <<"-">>, <<"x">>, <<"1">>, <<" ">> }

WordInputs == UNION { [1..n -> WordFrags] : n \in 0..MaxWordFrags }

WordInit == \E inp \in WordInputs : ScanInitWith(inp)

WordSpec == WordInit /\ [][ScanNext]_vars

\* the letters from offset i up to the first character that is no letter
RECURSIVE LetterRun(_)
LetterRun(i) ==
    IF isalpha(CharAt(i)) THEN <<CharAt(i)>> \o LetterRun(i + 1) ELSE <<>>

KeywordTypes ==
    {"NULL", "FALSE", "TRUE", "NAN", "INFINITY", "MINUS_INFINITY"}

\* the type of a run of letters after a sign (<<>> for no sign)
WordType(sign, run) ==
    CASE sign = <<>> /\ run = <<"n", "u", "l", "l">> -> "NULL"
      [] sign = <<>> /\ run = <<"f", "a", "l", "s", "e">> -> "FALSE"
      [] sign = <<>> /\ run = <<"t", "r", "u", "e">> -> "TRUE"
      [] run = <<"N", "a", "N">> -> "NAN"
      [] sign # <<"-">> /\ run = <<"I", "n", "f", "i", "n", "i", "t", "y">>
           -> "INFINITY"
      [] sign = <<"-">> /\ run = <<"I", "n", "f", "i", "n", "i", "t", "y">>
           -> "MINUS_INFINITY"
      [] OTHER -> "GARBAGE"

\* the sign the token starts with, <<>> if it starts with none
SignOf(token) ==
    IF CharAt(token.start) \in {"+", "-"}
    THEN <<CharAt(token.start)>>
    ELSE <<>>

\* the token starts where a keyword scan starts
StartsWord(token) == isalpha(CharAt(token.start + Len(SignOf(token))))

\* C18: a run of letters without a sign is a keyword token only if it is
\* one of null, false, true, NaN, Infinity; a sign with letters after it is
\* a keyword token only for NaN (NAN for both signs) and for Infinity
\* (INFINITY after '+', MINUS_INFINITY after '-'); every other run of
\* letters, signed or not, is a GARBAGE token that covers the sign and the
\* whole run, and a sign with neither a digit nor a letter after it is a
\* GARBAGE token of the sign alone. No other text gives a keyword token.
C18_KeywordScan ==
    (At("scan") /\ returned # <<>> /\ current.type # "EOF") =>
        /\ StartsWord(current) =>
             /\ current.type =
                  WordType(SignOf(current),
                           LetterRun(current.start + Len(SignOf(current))))
             /\ current.lexeme =
                  SignOf(current) \o
                  LetterRun(current.start + Len(SignOf(current)))
        /\ ( /\ SignOf(current) # <<>>
             /\ ~StartsWord(current)
             /\ ~isdigit(CharAt(current.start + 1)) ) =>
             /\ current.type = "GARBAGE"
             /\ current.lexeme = SignOf(current)
        /\ current.type \in KeywordTypes => StartsWord(current)

\* a signed word that is no keyword, scanned as noise, and after it the
\* negative infinity
C18_Witness ==
    /\ Len(returned) = 2
    /\ returned[1].type = "GARBAGE"
    /\ returned[1].start = 0
    /\ CharAt(0) = "-" /\ isalpha(CharAt(1))
    /\ current.type = "MINUS_INFINITY"
    /\ current.lexeme = <<"-", "I", "n", "f", "i", "n", "i", "t", "y">>

====
